---- MODULE Spec2Model ----
(***************************************************************************)
(* DataBot: the agent with tools and a persistent conversation history of  *)
(* agente_basico_hc_base_de_conocimiento.py.  The model follows main() and *)
(* chat_con_agente() statement by statement; every call that leaves the    *)
(* process (the history store, the model, a tool) is a step of its own,    *)
(* and may raise.                                                          *)
(*                                                                         *)
(* Strings that the program only stores and compares are TLA+ strings.     *)
(* The session identifier is parsed by the program, so it is a sequence of *)
(* one-character strings.                                                  *)
(***************************************************************************)
EXTENDS Integers, Sequences, FiniteSets, TLC

VARIABLES
    pc,              \* position of the single thread of control
    opcion,          \* main: opcion
    session_id,      \* main: session_id
    db,              \* table chat_history_datapath_rag_tools, per session
    cycles,          \* number of chat_con_agente calls made so far
    mensaje_usuario, \* chat_con_agente: mensaje_usuario
    messages,        \* chat_con_agente: messages
    response,        \* chat_con_agente: response
    k,               \* chat_con_agente: position of the for loop of line 141
    tool_results,    \* chat_con_agente: tool_results
    final_response,  \* chat_con_agente: final_response
    respuesta_final, \* chat_con_agente: respuesta_final
    outcome,         \* main: how the last call of chat_con_agente ended
    respuesta,       \* main: respuesta, the reply printed last
    hist             \* observation of the current call (no effect on the program)

vars == <<pc, opcion, session_id, db, cycles, mensaje_usuario, messages,
          response, k, tool_results, final_response, respuesta_final,
          outcome, respuesta, hist>>

-----------------------------------------------------------------------------
(* Bounds of the model *)

\* calls of chat_con_agente in one run of main
MaxCycles == 2
\* tool calls in one completion of the model
MaxToolCalls == 2

-----------------------------------------------------------------------------
(* Character sequences *)

Rep(c, n) == [j \in 1..n |-> c]

HexDigits == {"0", "1", "4", "a", "b", "F"}
Whitespace == {" "}

\* s[from..] starts with pat
StartsWithAt(s, pat, from) ==
    /\ from + Len(pat) - 1 <= Len(s)
    /\ \A j \in 1..Len(pat) : s[from + j - 1] = pat[j]

\* str.replace(pat, ""): every occurrence, left to right, not overlapping
RECURSIVE RemoveAllFrom(_, _, _)
RemoveAllFrom(s, pat, from) ==
    IF from > Len(s) THEN <<>>
    ELSE IF StartsWithAt(s, pat, from)
         THEN RemoveAllFrom(s, pat, from + Len(pat))
         ELSE <<s[from]>> \o RemoveAllFrom(s, pat, from + 1)

RemoveAll(s, pat) == RemoveAllFrom(s, pat, 1)

\* str.strip(chars): leading and trailing characters of the set
RECURSIVE StripLeft(_, _)
StripLeft(s, chars) ==
    IF s # <<>> /\ Head(s) \in chars THEN StripLeft(Tail(s), chars) ELSE s

RECURSIVE StripRight(_, _)
StripRight(s, chars) ==
    IF s # <<>> /\ s[Len(s)] \in chars
    THEN StripRight(SubSeq(s, 1, Len(s) - 1), chars)
    ELSE s

Strip(s, chars) == StripRight(StripLeft(s, chars), chars)

\* digits of int(., 16): hex digits, single underscores between them
RECURSIVE HexBody(_, _)
HexBody(s, prevDigit) ==
    IF s = <<>> THEN prevDigit
    ELSE IF Head(s) \in HexDigits THEN HexBody(Tail(s), TRUE)
    ELSE IF Head(s) = "_" THEN prevDigit /\ HexBody(Tail(s), FALSE)
    ELSE FALSE

\* int(s, 16) does not raise: blanks around, a sign, a 0x prefix, the digits
IntBase16Parses(s) ==
    LET t == Strip(s, Whitespace)
        u == IF t # <<>> /\ Head(t) \in {"+", "-"} THEN Tail(t) ELSE t
        hasPrefix == Len(u) >= 2 /\ u[1] = "0" /\ u[2] \in {"x", "X"}
        v == IF hasPrefix THEN SubSeq(u, 3, Len(u)) ELSE u
        w == IF hasPrefix /\ v # <<>> /\ Head(v) = "_" THEN Tail(v) ELSE v
    IN  w # <<>> /\ HexBody(w, FALSE)

\* the text uuid.UUID(hex) takes its 32 digits from
UUIDHex(s) ==
    LET h1 == RemoveAll(RemoveAll(s, <<"u", "r", "n", ":">>), <<"u", "u", "i", "d", ":">>)
        h2 == Strip(h1, {"{", "}"})
    IN  RemoveAll(h2, <<"-">>)

\* uuid.UUID(s) returns (does not raise ValueError)
UUIDAccepts(s) ==
    /\ Len(UUIDHex(s)) = 32
    /\ IntBase16Parses(UUIDHex(s))

-----------------------------------------------------------------------------
(* Inputs *)

Canon(c) ==
    Rep(c, 8) \o <<"-">> \o Rep("b", 4) \o <<"-">> \o Rep("4", 4) \o <<"-">>
        \o Rep("a", 4) \o <<"-">> \o Rep("1", 12)

\* str(uuid.uuid4()): the canonical form, of digits the run cannot predict
FreshIds == {Canon("0"), Canon("F")}

\* what the user may paste at "Pega el UUID de la sesion"
Pasted ==
    { Canon("a"),
      <<" ">> \o Canon("a") \o <<" ">>,
      <<"{">> \o Canon("b") \o <<"}">>,
      <<"u", "r", "n", ":", "u", "u", "i", "d", ":">> \o Canon("1"),
      Rep("a", 32),
      <<"0", "x">> \o Rep("a", 30),
      <<"u", "r", "n", ":">> \o Canon("g"),
      Rep("a", 31),
      Rep("g", 32),
      Canon("g"),
      <<"a", "b", "c">>,
      <<>> }

Opciones == {"1", "2"}

ExitWords == {"salir", "exit", "quit"}

\* lines typed at "Tu:", after strip(); "SALIR" is lowered by the program.
\* The program stores and forwards an utterance without reading it, so one
\* utterance stands for all of them.
Utterances == {"cursos"}
Lines == Utterances \cup {"", "salir", "exit", "quit", "SALIR"}

Lower(s) == IF s = "SALIR" THEN "salir" ELSE s

\* texts of the model's completions
Texts == {"r1", "r2"}

\* texts a tool returns
ToolTexts == {"T"}

\* the names the model may ask for: the tool of the registry, and the tool of
\* the tools package that the registry does not hold
buscar_datapath == "buscar_datapath"
buscar_internet == "buscar_internet"
ToolNames == {buscar_datapath, buscar_internet}

ToolCallIds == {"call_1", "call_2"}

\* tools = [buscar_datapath]
tools == <<buscar_datapath>>

ToolCall == [name : ToolNames, id : ToolCallIds]

SeqsUpTo(S, n) == UNION {[1..m -> S] : m \in 0..n}

ToolCallLists == SeqsUpTo(ToolCall, MaxToolCalls)

\* what chat_con_tools.invoke may return
Completions == [content : Texts, tool_calls : ToolCallLists]

NoCompletion == [content |-> "", tool_calls |-> <<>>]

\* the second completion: the program never reads its tool_calls, so one
\* request stands for any list of them
FinalCompletions ==
    [content : Texts,
     tool_calls : {<<>>, <<[name |-> buscar_datapath, id |-> "call_1"]>>}]

-----------------------------------------------------------------------------
(* The history store *)

HumanMessage(text) == [type |-> "human", content |-> text]
AIMessage(text) == [type |-> "ai", content |-> text]

\* the session keys main can hand to get_session_history
SessionIds ==
    FreshIds \cup {Strip(p, Whitespace) : p \in {q \in Pasted : UUIDAccepts(Strip(q, Whitespace))}}

\* history.messages
StoredMessages(store, sid) == store[sid]

\* AddMessage gone wrong: the row is put before the others
AddMessageFirst(store, sid, m) == [store EXCEPT ![sid] = <<m>> \o @]

\* history.add_user_message / history.add_ai_message: one row, after the others
AddMessage(store, sid, m) == [store EXCEPT ![sid] = Append(@, m)]

-----------------------------------------------------------------------------
(* The request context *)

system_prompt == "Eres DataBot"

Msg(role, content, calls, id) ==
    [role |-> role, content |-> content, tool_calls |-> calls, tool_call_id |-> id]

\* lines 125-129: a stored message becomes a role/content pair
RoleOf(m) == IF m.type = "human" THEN "user" ELSE "assistant"

\* lines 122-132: system prompt, the history in order, the new utterance
BuildMessages(previos, utterance) ==
    <<Msg("system", system_prompt, <<>>, "")>>
        \o [j \in 1..Len(previos) |-> Msg(RoleOf(previos[j]), previos[j].content, <<>>, "")]
        \o <<Msg("user", utterance, <<>>, "")>>

\* ToolMessage gone wrong: the id of the tool call is left out
ToolMessageSinId(tr) == Msg("tool", tr.result, <<>>, "")

\* lines 158-161: ToolMessage(content, tool_call_id)
ToolMessage(tr) == Msg("tool", tr.result, <<>>, tr.tool_call_id)

\* Augment gone wrong: the results are put before the completion
AugmentResultsFirst(msgs, resp, results) ==
    msgs \o [j \in 1..Len(results) |-> ToolMessage(results[j])]
         \o <<Msg("assistant", resp.content, resp.tool_calls, "")>>

\* lines 156-161: the completion as it came, then one message per collected result
Augment(msgs, resp, results) ==
    msgs \o <<Msg("assistant", resp.content, resp.tool_calls, "")>>
         \o [j \in 1..Len(results) |-> ToolMessage(results[j])]

\* lines 146-147: some tool of the registry has the name
Registered(name) == \E j \in 1..Len(tools) : tools[j] = name

-----------------------------------------------------------------------------
(* State *)

NoHist == [before |-> <<>>, utterance |-> "", events |-> <<>>, invoked |-> <<>>,
           requests |-> <<>>, texts |-> <<>>, final_requests |-> <<>>]

Log(e) == [hist EXCEPT !.events = Append(@, e)]

Init ==
    /\ pc = "menu"
    /\ opcion = ""
    /\ session_id = <<>>
    /\ db = [s \in SessionIds |-> <<>>]
    /\ cycles = 0
    /\ mensaje_usuario = ""
    /\ messages = <<>>
    /\ response = NoCompletion
    /\ k = 0
    /\ tool_results = <<>>
    /\ final_response = NoCompletion
    /\ respuesta_final = ""
    /\ outcome = "none"
    /\ respuesta = ""
    /\ hist = NoHist

\* the frame of chat_con_agente is gone
FrameDropped ==
    /\ mensaje_usuario' = ""
    /\ messages' = <<>>
    /\ response' = NoCompletion
    /\ k' = 0
    /\ tool_results' = <<>>
    /\ final_response' = NoCompletion
    /\ respuesta_final' = ""

\* lines 226-227: an exception of the call reaches main, which prints it and
\* goes on with the loop
Raise(e) ==
    /\ pc' = "prompt"
    /\ outcome' = "error"
    /\ hist' = Log(e)
    /\ FrameDropped
    /\ UNCHANGED <<opcion, session_id, db, cycles, respuesta>>

-----------------------------------------------------------------------------
(* main *)

\* lines 194-197: the menu; with "2", session_id first holds what was pasted
ElegirOpcion ==
    /\ pc = "menu"
    /\ \E op \in Opciones :
        /\ opcion' = op
        /\ IF op = "2"
           THEN \E p \in Pasted : session_id' = Strip(p, Whitespace)
           ELSE session_id' = <<>>
    /\ pc' = "validar"
    /\ UNCHANGED <<db, cycles, mensaje_usuario, messages, response, k, tool_results,
                   final_response, respuesta_final, outcome, respuesta, hist>>

\* ValidarSesion gone wrong: the ValueError is caught and the pasted string kept
ValidarSesionSinReemplazo ==
    /\ pc = "validar"
    /\ IF opcion = "2"
       THEN session_id' = session_id
       ELSE session_id' \in FreshIds
    /\ pc' = "prompt"
    /\ UNCHANGED <<opcion, db, cycles, mensaje_usuario, messages, response, k,
                   tool_results, final_response, respuesta_final, outcome,
                   respuesta, hist>>

\* lines 196-204: uuid.UUID(session_id) raises ValueError and a new identifier
\* is made; with any other option a new identifier is made
ValidarSesion ==
    /\ pc = "validar"
    /\ IF opcion = "2" /\ UUIDAccepts(session_id)
       THEN session_id' = session_id
       ELSE session_id' \in FreshIds
    /\ pc' = "prompt"
    /\ UNCHANGED <<opcion, db, cycles, mensaje_usuario, messages, response, k,
                   tool_results, final_response, respuesta_final, outcome,
                   respuesta, hist>>

\* lines 212-218: an exit word ends the loop
Salir ==
    /\ pc = "prompt"
    /\ \E usuario \in Lines : Lower(usuario) \in ExitWords
    /\ pc' = "exited"
    /\ UNCHANGED <<opcion, session_id, db, cycles, mensaje_usuario, messages,
                   response, k, tool_results, final_response, respuesta_final,
                   outcome, respuesta, hist>>

\* lines 220-221: an empty line is read again
LineaVacia ==
    /\ pc = "prompt"
    /\ \E usuario \in Lines : Lower(usuario) \notin ExitWords /\ usuario = ""
    /\ UNCHANGED vars

\* lines 223-224, 112: chat_con_agente(usuario, session_id) is entered
Preguntar ==
    /\ pc = "prompt"
    /\ cycles < MaxCycles
    /\ \E usuario \in Lines :
        /\ Lower(usuario) \notin ExitWords
        /\ usuario # ""
        /\ mensaje_usuario' = usuario
        /\ hist' = [NoHist EXCEPT !.before = StoredMessages(db, session_id),
                                  !.utterance = usuario]
    /\ cycles' = cycles + 1
    /\ pc' = "load"
    /\ outcome' = "running"
    /\ UNCHANGED <<opcion, session_id, db, messages, response, k, tool_results,
                   final_response, respuesta_final, respuesta>>

-----------------------------------------------------------------------------
(* chat_con_agente *)

\* CargarHistorial gone wrong: the utterance is stored as soon as the history
\* is read
CargarHistorialGuardaUsuario ==
    /\ pc = "load"
    /\ messages' = BuildMessages(StoredMessages(db, session_id), mensaje_usuario)
    /\ db' = AddMessage(db, session_id, HumanMessage(mensaje_usuario))
    /\ hist' = [hist EXCEPT !.events = @ \o <<"load", "write">>]
    /\ pc' = "first"
    /\ UNCHANGED <<opcion, session_id, cycles, mensaje_usuario, response, k,
                   tool_results, final_response, respuesta_final, outcome, respuesta>>

\* lines 118-132: the history is read and the context is built
CargarHistorial ==
    /\ pc = "load"
    /\ messages' = BuildMessages(StoredMessages(db, session_id), mensaje_usuario)
    /\ hist' = Log("load")
    /\ pc' = "first"
    /\ UNCHANGED <<opcion, session_id, db, cycles, mensaje_usuario, response, k,
                   tool_results, final_response, respuesta_final, outcome, respuesta>>

\* lines 118-119: psycopg.connect or the query raises
CargarHistorialFalla ==
    /\ pc = "load"
    /\ Raise("load_failed")

\* PrimeraLlamada gone wrong: the branch of line 138 is always taken
PrimeraLlamadaSiempreTools ==
    /\ pc = "first"
    /\ \E c \in Completions :
        /\ response' = c
        /\ hist' = [hist EXCEPT !.events = Append(@, "model"),
                                !.requests = c.tool_calls,
                                !.texts = Append(@, c.content)]
    /\ pc' = "tools"
    /\ k' = 1
    /\ tool_results' = <<>>
    /\ UNCHANGED <<opcion, session_id, db, cycles, mensaje_usuario, messages,
                   final_response, respuesta_final, outcome, respuesta>>

\* lines 135-138, 166-168: the first completion; without tool calls its text
\* is the reply
PrimeraLlamada ==
    /\ pc = "first"
    /\ \E c \in Completions :
        /\ response' = c
        /\ hist' = [hist EXCEPT !.events = Append(@, "model"),
                                !.requests = c.tool_calls,
                                !.texts = Append(@, c.content)]
        /\ IF c.tool_calls # <<>>
           THEN /\ pc' = "tools"
                /\ k' = 1
                /\ respuesta_final' = respuesta_final
           ELSE /\ pc' = "save_user"
                /\ k' = k
                /\ respuesta_final' = c.content
    /\ tool_results' = <<>>
    /\ UNCHANGED <<opcion, session_id, db, cycles, mensaje_usuario, messages,
                   final_response, outcome, respuesta>>

\* line 135: the model call raises
PrimeraLlamadaFalla ==
    /\ pc = "first"
    /\ Raise("model_failed")

\* EjecutarTool gone wrong: a name the registry lacks raises
EjecutarToolDesconocidaFalla ==
    /\ pc = "tools"
    /\ k <= Len(response.tool_calls)
    /\ LET tool_call == response.tool_calls[k] IN
        IF Registered(tool_call.name)
        THEN /\ \E result \in ToolTexts :
                /\ tool_results' = Append(tool_results,
                        [tool_call_id |-> tool_call.id, result |-> result])
                /\ hist' = [hist EXCEPT !.events = Append(@, "tool"),
                                        !.invoked = Append(@, k)]
             /\ k' = k + 1
             /\ UNCHANGED <<pc, opcion, session_id, db, cycles, mensaje_usuario,
                            messages, response, final_response, respuesta_final,
                            outcome, respuesta>>
        ELSE Raise("unknown_tool")

\* lines 141-153: one tool call of the completion; the tool of that name is
\* invoked and its result kept, and a name the registry lacks is passed over
EjecutarTool ==
    /\ pc = "tools"
    /\ k <= Len(response.tool_calls)
    /\ LET tool_call == response.tool_calls[k] IN
        IF Registered(tool_call.name)
        THEN \E result \in ToolTexts :
                /\ tool_results' = Append(tool_results,
                        [tool_call_id |-> tool_call.id, result |-> result])
                /\ hist' = [hist EXCEPT !.events = Append(@, "tool"),
                                        !.invoked = Append(@, k)]
        ELSE /\ tool_results' = tool_results
             /\ hist' = hist
    /\ k' = k + 1
    /\ UNCHANGED <<pc, opcion, session_id, db, cycles, mensaje_usuario, messages,
                   response, final_response, respuesta_final, outcome, respuesta>>

\* EjecutarToolFalla gone wrong: the exception of the tool is caught and the
\* loop goes on with the next tool call
EjecutarToolFallaSigue ==
    /\ pc = "tools"
    /\ k <= Len(response.tool_calls)
    /\ Registered(response.tool_calls[k].name)
    /\ hist' = [hist EXCEPT !.events = Append(@, "tool_failed"),
                            !.invoked = Append(@, k)]
    /\ k' = k + 1
    /\ UNCHANGED <<pc, opcion, session_id, db, cycles, mensaje_usuario, messages,
                   response, tool_results, final_response, respuesta_final,
                   outcome, respuesta>>

\* line 148: t.invoke raises
EjecutarToolFalla ==
    /\ pc = "tools"
    /\ k <= Len(response.tool_calls)
    /\ Registered(response.tool_calls[k].name)
    /\ hist' = [hist EXCEPT !.events = Append(@, "tool_failed"),
                            !.invoked = Append(@, k)]
    /\ pc' = "prompt"
    /\ outcome' = "error"
    /\ FrameDropped
    /\ UNCHANGED <<opcion, session_id, db, cycles, respuesta>>

\* lines 156-161: after the loop, the completion and the results go into the context
AgregarResultados ==
    /\ pc = "tools"
    /\ k > Len(response.tool_calls)
    /\ messages' = Augment(messages, response, tool_results)
    /\ pc' = "second"
    /\ UNCHANGED <<opcion, session_id, db, cycles, mensaje_usuario, response, k,
                   tool_results, final_response, respuesta_final, outcome,
                   respuesta, hist>>

\* SegundaLlamada gone wrong: the tool calls of the second completion are
\* resolved in another round
SegundaLlamadaRepite ==
    /\ pc = "second"
    /\ \E c \in FinalCompletions :
        /\ final_response' = c
        /\ respuesta_final' = c.content
        /\ hist' = [hist EXCEPT !.events = Append(@, "model"),
                                !.texts = Append(@, c.content),
                                !.final_requests = c.tool_calls]
        /\ IF c.tool_calls # <<>>
           THEN /\ response' = c
                /\ k' = 1
                /\ tool_results' = <<>>
                /\ pc' = "tools"
           ELSE /\ UNCHANGED <<response, k, tool_results>>
                /\ pc' = "save_user"
    /\ UNCHANGED <<opcion, session_id, db, cycles, mensaje_usuario, messages,
                   outcome, respuesta>>

\* lines 164-165: the second completion; its text is the reply
SegundaLlamada ==
    /\ pc = "second"
    /\ \E c \in FinalCompletions :
        /\ final_response' = c
        /\ respuesta_final' = c.content
        /\ hist' = [hist EXCEPT !.events = Append(@, "model"),
                                !.texts = Append(@, c.content),
                                !.final_requests = c.tool_calls]
    /\ pc' = "save_user"
    /\ UNCHANGED <<opcion, session_id, db, cycles, mensaje_usuario, messages,
                   response, k, tool_results, outcome, respuesta>>

\* line 164: the model call raises
SegundaLlamadaFalla ==
    /\ pc = "second"
    /\ Raise("model_failed")

\* line 171: history.add_user_message(mensaje_usuario)
GuardarUsuario ==
    /\ pc = "save_user"
    /\ db' = AddMessage(db, session_id, HumanMessage(mensaje_usuario))
    /\ hist' = Log("write")
    /\ pc' = "save_ai"
    /\ UNCHANGED <<opcion, session_id, cycles, mensaje_usuario, messages, response,
                   k, tool_results, final_response, respuesta_final, outcome,
                   respuesta>>

\* line 171: the insert raises, nothing is stored
GuardarUsuarioFalla ==
    /\ pc = "save_user"
    /\ Raise("write_failed")

\* lines 172-174, 224-225: history.add_ai_message(respuesta_final), and the
\* reply is returned to main
GuardarRespuesta ==
    /\ pc = "save_ai"
    /\ db' = AddMessage(db, session_id, AIMessage(respuesta_final))
    /\ hist' = Log("write")
    /\ respuesta' = respuesta_final
    /\ outcome' = "ok"
    /\ pc' = "prompt"
    /\ FrameDropped
    /\ UNCHANGED <<opcion, session_id, cycles>>

\* line 172: the insert raises, nothing more is stored
GuardarRespuestaFalla ==
    /\ pc = "save_ai"
    /\ Raise("write_failed")

Next ==
    \/ ElegirOpcion
    \/ ValidarSesion
    \/ Salir
    \/ LineaVacia
    \/ Preguntar
    \/ CargarHistorial
    \/ CargarHistorialFalla
    \/ PrimeraLlamada
    \/ PrimeraLlamadaFalla
    \/ EjecutarTool
    \/ EjecutarToolFalla
    \/ AgregarResultados
    \/ SegundaLlamada
    \/ SegundaLlamadaFalla
    \/ GuardarUsuario
    \/ GuardarUsuarioFalla
    \/ GuardarRespuesta
    \/ GuardarRespuestaFalla

Spec == Init /\ [][Next]_vars

-----------------------------------------------------------------------------
(* What the observation of a call says *)

Range(f) == {f[j] : j \in DOMAIN f}

Count(f, S) == Cardinality({j \in DOMAIN f : f[j] \in S})

\* model calls made in the call of chat_con_agente, the failed one included
ModelCalls == Count(hist.events, {"model", "model_failed"})

\* the model has answered the first call
FirstCompletionSeen == Len(hist.texts) >= 1

\* the call returned to main with a reply
Returned == pc = "prompt" /\ outcome = "ok"

\* the call ended with an exception
Failed == pc = "prompt" /\ outcome = "error"

\* the reply is determined and the call is storing the two turns
Saving == pc \in {"save_user", "save_ai"}

\* the History of the session of this run
History == IF session_id \in DOMAIN db THEN db[session_id] ELSE <<>>

\* the requests of the first completion that name a tool of the registry
RequestIsRegistered(q) == \E j \in 1..Len(tools) : tools[j] = hist.requests[q].name

RegisteredRequests == {q \in DOMAIN hist.requests : RequestIsRegistered(q)}

-----------------------------------------------------------------------------
(* C1 *)

\* C1: when chat_con_agente returns a reply, the History of the session is the
\* History the call found, followed by a user turn holding the utterance and
\* then an assistant turn holding the returned reply; the turns stored before
\* are the same, in the same order.
C1_HistoryGrowsByTwo ==
    Returned =>
        /\ History = hist.before \o <<HumanMessage(hist.utterance), AIMessage(respuesta)>>
        /\ Len(History) = Len(hist.before) + 2
        /\ SubSeq(History, 1, Len(hist.before)) = hist.before

\* a call that found earlier turns has returned
C1_Witness ==
    /\ Returned
    /\ Len(hist.before) = 2
    /\ hist.before[2].content # respuesta
    /\ Len(History) = 4

-----------------------------------------------------------------------------
(* C2 *)

\* C2: when a call of chat_con_agente ends with a failure, whatever the step
\* that failed, the History of the session is the History the call found.
C2_FailureLeavesHistory ==
    Failed => History = hist.before

-----------------------------------------------------------------------------
(* C3 *)

\* C3: when the first completion holds no tool call, no tool is invoked in the
\* call, the model is called exactly once, and the reply is the text of that
\* completion.
C3_DirectReply ==
    (FirstCompletionSeen /\ hist.requests = <<>>) =>
        /\ hist.invoked = <<>>
        /\ Count(hist.events, {"tool", "tool_failed"}) = 0
        /\ ModelCalls = 1
        /\ Len(hist.texts) = 1
        /\ Saving => respuesta_final = hist.texts[1]
        /\ Returned => respuesta = hist.texts[1]
        /\ pc \notin {"tools", "second"}

\* a call whose first completion held no tool call has returned
C3_Witness ==
    /\ Returned
    /\ hist.requests = <<>>
    /\ hist.texts = <<"r2">>
    /\ respuesta = "r2"

-----------------------------------------------------------------------------
(* C4 *)

\* C4: when the first completion holds N >= 1 tool calls, each of them is
\* invoked at most once and the model is called at most once more, after the
\* loop over the tool calls; a call that determines a reply has made exactly
\* two model calls and the reply is the text of the second completion; the
\* tool calls of the second completion are not invoked and no third model
\* call is made.
C4_OneRound ==
    (FirstCompletionSeen /\ Len(hist.requests) >= 1) =>
        /\ \A q \in DOMAIN hist.requests : Count(hist.invoked, {q}) <= 1
        /\ Range(hist.invoked) \subseteq DOMAIN hist.requests
        /\ ModelCalls <= 2
        /\ Len(hist.texts) <= 2
        /\ (Saving \/ Returned) =>
              /\ ModelCalls = 2
              /\ Count(hist.events, {"model"}) = 2
              /\ Len(hist.texts) = 2
        /\ Saving => respuesta_final = hist.texts[2]
        /\ Returned => respuesta = hist.texts[2]
        /\ Len(hist.texts) = 2 =>
              \* nothing but the two writes follows the second completion
              \A i \in DOMAIN hist.events :
                  hist.events[i] \in {"tool", "tool_failed", "model_failed"} =>
                      \E j \in (i + 1)..Len(hist.events) : hist.events[j] = "model"

\* a call with two tool calls in the first completion and a tool call in the
\* second has returned
C4_Witness ==
    /\ Returned
    /\ Len(hist.requests) = 2
    /\ Len(hist.invoked) = 2
    /\ hist.final_requests # <<>>
    /\ hist.texts = <<"r1", "r2">>

-----------------------------------------------------------------------------
(* C5 *)

\* C5: every tool message of the context carries the id of a tool call of the
\* first completion of the same call, and stands after the assistant message
\* that carries the tool calls of that completion.
C5_ResultsCorrelated ==
    \A j \in DOMAIN messages :
        messages[j].role = "tool" =>
            /\ \E q \in DOMAIN hist.requests :
                    hist.requests[q].id = messages[j].tool_call_id
            /\ \E a \in 1..(j - 1) :
                    /\ messages[a].role = "assistant"
                    /\ messages[a].tool_calls = hist.requests
                    /\ \E q \in DOMAIN messages[a].tool_calls :
                            messages[a].tool_calls[q].id = messages[j].tool_call_id

\* the context holds two tool messages of different ids
C5_Witness ==
    /\ pc = "second"
    /\ \E i, j \in DOMAIN messages :
        /\ messages[i].role = "tool"
        /\ messages[j].role = "tool"
        /\ messages[i].tool_call_id # messages[j].tool_call_id

-----------------------------------------------------------------------------
(* C6 *)

\* the context of the first model call of the current call
FirstContext == BuildMessages(hist.before, hist.utterance)

\* the context holds the first context, the first completion as an assistant
\* message, and one tool message for each of reqs, in that order, with its id
ContextAnswers(reqs) ==
    LET n0 == Len(FirstContext) IN
    /\ Len(messages) = n0 + 1 + Len(reqs)
    /\ SubSeq(messages, 1, n0) = FirstContext
    /\ messages[n0 + 1] = Msg("assistant", hist.texts[1], hist.requests, "")
    /\ \A q \in 1..Len(reqs) :
        /\ messages[n0 + 1 + q].role = "tool"
        /\ messages[n0 + 1 + q].tool_call_id = reqs[q].id
        /\ messages[n0 + 1 + q].content \in ToolTexts

\* the second model call is about to be made, or has been made
AtSecondCall == pc = "second" \/ (Saving /\ Len(hist.texts) = 2)

\* C6 as stated: the context of the second model call is the first context,
\* the first completion, and one tool message for each of the N tool calls
\* of the first completion, in their order, each with the id of its tool call.
C6_OneResultPerRequest ==
    AtSecondCall => ContextAnswers(hist.requests)

\* C6 as amended: the context of the second model call is the first context,
\* the first completion, and one tool message for each tool call of the first
\* completion whose name is in the registry, in their order, each with the
\* id of its tool call; a tool call of another name has no tool message.
C6_OneResultPerRegisteredRequest ==
    AtSecondCall =>
        ContextAnswers(SelectSeq(hist.requests, LAMBDA r : Registered(r.name)))

\* the second call is made with one tool message for two tool calls, the
\* first of them of a name the registry lacks
C6_Witness ==
    /\ pc = "second"
    /\ Len(hist.requests) = 2
    /\ hist.requests[1].name = buscar_internet
    /\ hist.requests[2].name = buscar_datapath
    /\ hist.requests[1].id # hist.requests[2].id
    /\ Len(messages) = Len(FirstContext) + 2

-----------------------------------------------------------------------------
(* C7 *)

ToolMessages == {j \in DOMAIN messages : messages[j].role = "tool"}

C7_Inv ==
    /\ \A q \in DOMAIN hist.requests :
            ~RequestIsRegistered(q) => q \notin Range(hist.invoked)
    /\ pc = "tools" => Len(tool_results) = Cardinality({q \in RegisteredRequests : q < k})
    /\ pc = "second" => Cardinality(ToolMessages) = Cardinality(RegisteredRequests)
    /\ (Returned /\ hist.requests # <<>>) =>
            /\ Len(hist.invoked) = Cardinality(RegisteredRequests)
            /\ Count(hist.events, {"model"}) = 2
            /\ Count(hist.events, {"write"}) = 2
            /\ History = hist.before \o <<HumanMessage(hist.utterance), AIMessage(hist.texts[2])>>

C7_Step ==
    (/\ pc = "tools"
     /\ k <= Len(response.tool_calls)
     /\ ~Registered(response.tool_calls[k].name))
        => /\ pc' = "tools"
           /\ k' = k + 1
           /\ outcome' = outcome
           /\ tool_results' = tool_results
           /\ hist' = hist
           /\ messages' = messages

\* C7: a tool call of the first completion whose name is not in the registry
\* is passed over: nothing is invoked for it, nothing is raised, no result is
\* kept and no tool message made for it; the loop goes on with the next tool
\* call, and a call that returns has made the second model call and stored
\* the two turns.
C7_UnknownSkipped == []C7_Inv /\ [][C7_Step]_vars

\* a call whose two tool calls both named a tool the registry lacks has returned
C7_Witness ==
    /\ Returned
    /\ Len(hist.requests) = 2
    /\ RegisteredRequests = {}
    /\ hist.events = <<"load", "model", "model", "write", "write">>
    /\ Len(History) = Len(hist.before) + 2

-----------------------------------------------------------------------------
(* C8 *)

LastEvent == IF hist.events = <<>> THEN "" ELSE hist.events[Len(hist.events)]

\* C8 as stated: when the invocation of one tool call fails, every other tool
\* call of the first completion whose tool is in the registry is still invoked.
C8_FailureConfined ==
    LastEvent = "tool_failed" => RegisteredRequests \subseteq Range(hist.invoked)

\* C8 as amended: when the invocation of one tool call fails, the failure ends
\* the call of chat_con_agente: the registered tool calls before the failing
\* one have been invoked and their results are dropped, no tool call after it
\* is invoked, no second model call is made, History is as the call found it,
\* and main is told of the failure.
C8_FailureEndsCall ==
    LastEvent = "tool_failed" =>
        LET f == hist.invoked[Len(hist.invoked)] IN
        /\ pc \in {"prompt", "exited"}
        /\ outcome = "error"
        /\ Range(hist.invoked) = {q \in RegisteredRequests : q <= f}
        /\ tool_results = <<>>
        /\ ModelCalls = 1
        /\ History = hist.before

\* the first of two tool calls failed, and the second, of a registered tool,
\* was not invoked
C8_Witness ==
    /\ Failed
    /\ LastEvent = "tool_failed"
    /\ hist.invoked = <<1>>
    /\ RegisteredRequests = {1, 2}

-----------------------------------------------------------------------------
(* C9 *)

SessionChosen == pc \notin {"menu", "validar"}

\* the identifiers uuid.UUID accepts, among those the run can meet
AcceptedIds == {s \in FreshIds \cup {Strip(p, Whitespace) : p \in Pasted} : UUIDAccepts(s)}

C9_Inv == SessionChosen => session_id \in AcceptedIds

C9_Step ==
    /\ pc = "validar" =>
          /\ pc' = "prompt"
          /\ IF opcion = "2" /\ UUIDAccepts(session_id)
             THEN session_id' = session_id
             ELSE session_id' \in FreshIds /\ session_id' # session_id
    /\ SessionChosen => session_id' = session_id

-----------------------------------------------------------------------------
(* C10 *)

\* the phase of the call; DONE is the phase in which the reply is determined
Phase ==
    CASE pc \in {"load", "first"} -> "AWAITING_FIRST_COMPLETION"
      [] pc = "tools" -> "AWAITING_CAPABILITY_RESULTS"
      [] pc = "second" -> "AWAITING_SECOND_COMPLETION"
      [] Saving /\ Len(hist.texts) = 1 -> "DIRECT_REPLY"
      [] Saving /\ Len(hist.texts) # 1 -> "DONE"
      [] OTHER -> IF outcome = "ok" THEN "DONE"
                  ELSE IF outcome = "error" THEN "FAILED" ELSE "IDLE"

PhaseOrder ==
    { <<"AWAITING_FIRST_COMPLETION", "DIRECT_REPLY">>,
      <<"DIRECT_REPLY", "DONE">>,
      <<"AWAITING_FIRST_COMPLETION", "AWAITING_CAPABILITY_RESULTS">>,
      <<"AWAITING_CAPABILITY_RESULTS", "AWAITING_SECOND_COMPLETION">>,
      <<"AWAITING_SECOND_COMPLETION", "DONE">> }
    \cup { <<p, "FAILED">> : p \in {"AWAITING_FIRST_COMPLETION", "DIRECT_REPLY",
                "AWAITING_CAPABILITY_RESULTS", "AWAITING_SECOND_COMPLETION", "DONE"} }

\* the place of an event in a call: the read, the first model call, the
\* tools, the second model call, the writes
Rank(i) ==
    LET e == hist.events[i] IN
    CASE e \in {"load", "load_failed"} -> 1
      [] e \in {"model", "model_failed"} ->
            IF \E j \in 1..(i - 1) : hist.events[j] \in {"model", "model_failed"}
            THEN 4 ELSE 2
      [] e \in {"tool", "tool_failed"} -> 3
      [] OTHER -> 5

C10_Events ==
    LET n == Len(hist.events) IN
    /\ n >= 1 => Rank(1) = 1
    /\ \A i \in 1..(n - 1) :
        /\ Rank(i) <= Rank(i + 1)
        /\ Rank(i) = Rank(i + 1) => Rank(i) \in {3, 5}
        /\ hist.events[i] \in {"load", "model", "tool", "write"}
        /\ Rank(i) = 2 /\ Rank(i + 1) = 5 => hist.requests = <<>>
        /\ Rank(i) = 2 /\ Rank(i + 1) \in {3, 4} => hist.requests # <<>>
        /\ Rank(i + 1) = 5 => Rank(i) \in {2, 4, 5}
    /\ Count(hist.events, {"write", "write_failed"}) <= 2
    /\ Len(History) = Len(hist.before) + Count(hist.events, {"write"})

C10_Step ==
    /\ cycles' = cycles => Phase' = Phase \/ <<Phase, Phase'>> \in PhaseOrder
    /\ cycles' # cycles =>
          /\ pc = "prompt"
          /\ Phase \in {"IDLE", "DONE", "FAILED"}
          /\ Phase' = "AWAITING_FIRST_COMPLETION"
    /\ db' # db => Saving /\ respuesta_final = hist.texts[Len(hist.texts)]
    /\ hist'.invoked # hist.invoked /\ cycles' = cycles =>
          Phase = "AWAITING_CAPABILITY_RESULTS"

\* C10: a call goes through the phases only in the order AWAITING_FIRST_COMPLETION,
\* DIRECT_REPLY, DONE or AWAITING_FIRST_COMPLETION, AWAITING_CAPABILITY_RESULTS,
\* AWAITING_SECOND_COMPLETION, DONE (a failure ends it from any of them): the
\* History is read before the first model call and written only after the
\* last one, when the reply is determined; tools are invoked only between the
\* first completion and the second model call; no phase comes twice.
C10_PhaseOrder == []C10_Events /\ [][C10_Step]_vars

\* a call has gone through the read, the first model call, two tools, the
\* second model call and the two writes
C10_Witness ==
    /\ Returned
    /\ hist.events = <<"load", "model", "tool", "tool", "model", "write", "write">>

====
